---- MODULE Spec2Model ----
(***************************************************************************)
(* Model of the pNode Pulse Python SDK (packages/sdk-python/pnode_pulse):   *)
(* the base client (headers, rate-limit parsing, error translation), the   *)
(* resource facades (query building, response decoding) and the sync and   *)
(* async client facades with their transport handle.                       *)
(*                                                                         *)
(* Python values are tagged records ([t |-> "str", s |-> ...], ...), so    *)
(* that values of different Python types can be compared.  Header values   *)
(* are sequences of one-character strings, so that int() is computed       *)
(* character by character.                                                 *)
(***************************************************************************)
EXTENDS Integers, Sequences, FiniteSets, TLC

VARIABLES client, closed, last, tasks

vars == <<client, closed, last, tasks>>

----------------------------------------------------------------------------
(* Python values *)

PyNone == [t |-> "None"]
PyStr(s) == [t |-> "str", s |-> s]
PyInt(n) == [t |-> "int", n |-> n]
\* a float m * 10^-d, d >= 0, normalised: d = 0 or m not a multiple of 10
PyFloat(m, d) == [t |-> "float", m |-> m, d |-> d]
PyBool(b) == [t |-> "bool", b |-> b]
PyDict(f) == [t |-> "dict", f |-> f]
PyList(a) == [t |-> "list", a |-> a]

\* Python truthiness of the values the client tests with `if x:` / `x or y`
Truthy(v) ==
    CASE v.t = "None" -> FALSE
      [] v.t = "str" -> v.s # ""
      [] v.t = "int" -> v.n # 0
      [] v.t = "bool" -> v.b
      [] v.t = "dict" -> DOMAIN v.f # {}
      [] v.t = "list" -> Len(v.a) > 0
      [] OTHER -> TRUE

\* dict.get(key, default); AttributeError when the receiver is not a dict
HasGet(v) == v.t = "dict"
Get(v, key, default) == IF key \in DOMAIN v.f THEN v.f[key] ELSE default

----------------------------------------------------------------------------
(* int() on a header value *)

Digits == {"0", "1", "2", "3", "4", "5", "6", "7", "8", "9"}

DigitVal(c) ==
    CASE c = "0" -> 0 [] c = "1" -> 1 [] c = "2" -> 2 [] c = "3" -> 3
      [] c = "4" -> 4 [] c = "5" -> 5 [] c = "6" -> 6 [] c = "7" -> 7
      [] c = "8" -> 8 [] c = "9" -> 9

RECURSIVE LStrip(_)
LStrip(s) == IF s # <<>> /\ Head(s) = " " THEN LStrip(Tail(s)) ELSE s

RECURSIVE RStrip(_)
RStrip(s) ==
    IF s # <<>> /\ s[Len(s)] = " " THEN RStrip(SubSeq(s, 1, Len(s) - 1)) ELSE s

Strip(s) == LStrip(RStrip(s))

RECURSIVE DigitsValue(_, _)
DigitsValue(s, acc) ==
    IF s = <<>> THEN acc ELSE DigitsValue(Tail(s), 10 * acc + DigitVal(Head(s)))

AllDigits(s) == s # <<>> /\ \A i \in 1..Len(s) : s[i] \in Digits

\* int(s) for a str s: surrounding whitespace, an optional sign, decimal
\* digits; anything else raises ValueError ([ok |-> FALSE]).
IntOfStr(s) ==
    LET u == Strip(s)
        signed == u # <<>> /\ Head(u) \in {"+", "-"}
        body == IF signed THEN Tail(u) ELSE u
    IN  IF AllDigits(body)
        THEN [ok |-> TRUE,
              v |-> IF signed /\ Head(u) = "-"
                    THEN 0 - DigitsValue(body, 0) ELSE DigitsValue(body, 0)]
        ELSE [ok |-> FALSE]

\* int(headers.get(name, default)) with an int default
HeaderInt(headers, name, default) ==
    IF name \in DOMAIN headers
    THEN IntOfStr(headers[name])
    ELSE [ok |-> TRUE, v |-> default]

----------------------------------------------------------------------------
(* Exceptions *)

\* PnodePulseError.__init__
PnodePulseError(message, code, status, rate_limit) ==
    [cls |-> "PnodePulseError", sdk |-> TRUE, message |-> message,
     code |-> code, status |-> status, rate_limit |-> rate_limit]

Subclass(name, e) == [e EXCEPT !.cls = name]

RateLimitError(message, retry_after, rate_limit) ==
    [cls |-> "RateLimitError", sdk |-> TRUE, message |-> message,
     code |-> PyStr("RATE_LIMIT_EXCEEDED"), status |-> PyInt(429),
     rate_limit |-> rate_limit, retry_after |-> retry_after]

NotFoundError(message) ==
    Subclass("NotFoundError",
             PnodePulseError(message, PyStr("NOT_FOUND"), PyInt(404), PyNone))

AuthenticationError(message) ==
    Subclass("AuthenticationError",
             PnodePulseError(message, PyStr("UNAUTHORIZED"), PyInt(401), PyNone))

ValidationError(message) ==
    Subclass("ValidationError",
             PnodePulseError(message, PyStr("VALIDATION_ERROR"), PyInt(400), PyNone))

NetworkError(message) ==
    Subclass("NetworkError",
             PnodePulseError(message, PyStr("NETWORK_ERROR"), PyNone, PyNone))

TimeoutError(message) ==
    Subclass("TimeoutError",
             PnodePulseError(message, PyStr("TIMEOUT"), PyNone, PyNone))

\* exceptions that are not part of the SDK's taxonomy
Foreign(name) == [cls |-> name, sdk |-> FALSE]

Raise(e) == [kind |-> "raise", exc |-> e]
Return(v) == [kind |-> "return", value |-> v]

----------------------------------------------------------------------------
(* Base client *)

DEFAULT_TIMEOUT == 30

\* str.rstrip("/") on a URL given as a sequence of tokens
RECURSIVE RStripSlash(_)
RStripSlash(u) ==
    IF u # <<>> /\ u[Len(u)] = "/"
    THEN RStripSlash(SubSeq(u, 1, Len(u) - 1)) ELSE u

\* BaseClient.__init__ followed by the creation of the transport handle
\* (httpx.Client(timeout=timeout) / httpx.AsyncClient(timeout=timeout))
NewClient(api_key, base_url, timeout) ==
    [api_key |-> api_key, base_url |-> RStripSlash(base_url),
     timeout |-> timeout, http |-> [state |-> "open", timeout |-> timeout]]

\* BaseClient._get_headers
GetHeaders(self) ==
    IF Truthy(self.api_key)
    THEN [h \in {"Content-Type", "X-API-Key"} |->
            IF h = "Content-Type" THEN PyStr("application/json") ELSE self.api_key]
    ELSE [h \in {"Content-Type"} |-> PyStr("application/json")]

RateLimitInfo(limit, remaining, reset) ==
    [limit |-> limit, remaining |-> remaining, reset |-> reset]

\* BaseClient._parse_rate_limit: [ok |-> FALSE] is the ValueError of int()
ParseRateLimit(headers) ==
    LET limit == HeaderInt(headers, "X-RateLimit-Limit", 0)
        remaining == HeaderInt(headers, "X-RateLimit-Remaining", 0)
        reset == HeaderInt(headers, "X-RateLimit-Reset", 0)
    IN  IF limit.ok /\ remaining.ok /\ reset.ok
        THEN [ok |-> TRUE, v |-> RateLimitInfo(limit.v, remaining.v, reset.v)]
        ELSE [ok |-> FALSE]

\* a body that response.json() cannot parse
NotJson == [t |-> "NotJson"]

EmptyDict == PyDict(<<>>)

\* ErrorFields never reading the JSON body
ErrorFieldsIgnoringBody(response) ==
    [message |-> IF response.body.text # "" THEN PyStr(response.body.text)
                 ELSE PyStr("Unknown error"),
     code |-> PyStr("UNKNOWN_ERROR")]

\* the try/except block of _handle_error_response: message and code
ErrorFields(response) ==
    LET data == response.body.json
        parsed == data # NotJson /\ HasGet(data)
                     /\ HasGet(Get(data, "error", EmptyDict))
        error == Get(data, "error", EmptyDict)
    IN  IF parsed
        THEN [message |-> Get(error, "message", PyStr("Unknown error")),
              code |-> Get(error, "code", PyStr("UNKNOWN_ERROR"))]
        ELSE [message |-> IF response.body.text # ""
                          THEN PyStr(response.body.text)
                          ELSE PyStr("Unknown error"),
              code |-> PyStr("UNKNOWN_ERROR")]

\* RateLimited with 0 as the default of Retry-After
RateLimitedDefaultZero(response, message, rate_limit) ==
    LET retry_after == HeaderInt(response.headers, "Retry-After", 0)
    IN  IF retry_after.ok
        THEN Raise(RateLimitError(message, PyInt(retry_after.v), rate_limit))
        ELSE Raise(Foreign("ValueError"))

\* the 429 branch of _handle_error_response
RateLimited(response, message, rate_limit) ==
    LET retry_after == HeaderInt(response.headers, "Retry-After", 60)
    IN  IF retry_after.ok
        THEN Raise(RateLimitError(message, PyInt(retry_after.v), rate_limit))
        ELSE Raise(Foreign("ValueError"))

\* BaseClient._handle_error_response: the outcome of the call
HandleErrorResponse(response, rate_limit) ==
    LET e == ErrorFields(response)
    IN  IF response.status_code = 429
        THEN RateLimited(response, e.message, rate_limit)
        ELSE IF response.status_code = 404
        THEN Raise(NotFoundError(e.message))
        ELSE IF response.status_code = 401
        THEN Raise(AuthenticationError(e.message))
        ELSE Raise(PnodePulseError(e.message, e.code,
                                   PyInt(response.status_code), rate_limit))

\* httpx.Response.is_success
IsSuccess(response) ==
    response.status_code >= 200 /\ response.status_code <= 299

----------------------------------------------------------------------------
(* Transport *)

\* httpx exception classes the transport can raise, and their bases
TimeoutExceptions == {"ConnectTimeout", "ReadTimeout"}
RequestErrors == TimeoutExceptions \cup {"ConnectError", "TooManyRedirects"}

\* self._http.request(...): a closed handle raises RuntimeError without
\* sending; an open one sends the request and yields what the transport
\* answers (a response or an httpx exception).
HttpRequest(http, req, answer) ==
    IF http.state = "closed"
    THEN [sent |-> <<>>, kind |-> "raise", exc |-> "RuntimeError",
          msg |-> "Cannot send a request, as the client has been closed."]
    ELSE IF answer.kind = "raise"
    THEN [sent |-> <<req>>, kind |-> "raise", exc |-> answer.exc,
          msg |-> answer.msg]
    ELSE [sent |-> <<req>>, kind |-> "response", response |-> answer.response]

\* HttpClose leaving the handle as it is
HttpCloseNoop(http) == http

\* self._http.close() / await self._http.aclose()
HttpClose(http) == [http EXCEPT !.state = "closed"]

\* SyncExcept with its two except clauses in the other order
SyncExceptRequestErrorFirst(exc, msg) ==
    IF exc \in RequestErrors
    THEN Raise(NetworkError(PyStr(msg)))
    ELSE IF exc \in TimeoutExceptions
    THEN Raise(TimeoutError(PyStr("Request timed out")))
    ELSE Raise(Foreign(exc))

\* the except clauses of PnodePulse._request, in their order; an exception
\* they do not name propagates
SyncExcept(exc, msg) ==
    IF exc \in TimeoutExceptions
    THEN Raise(TimeoutError(PyStr("Request timed out")))
    ELSE IF exc \in RequestErrors
    THEN Raise(NetworkError(PyStr(msg)))
    ELSE Raise(Foreign(exc))

\* the except clauses of AsyncPnodePulse._request
AsyncExcept(exc, msg) ==
    IF exc \in TimeoutExceptions
    THEN Raise(TimeoutError(PyStr("Request timed out")))
    ELSE IF exc \in RequestErrors
    THEN Raise(NetworkError(PyStr(msg)))
    ELSE Raise(Foreign(exc))

\* SyncRequest sending the request a second time after a 429, a timeout or
\* a transport failure
SyncRequestRetrying(self, method, path, params, answer) ==
    LET r == HttpRequest(self.http,
                         [method |-> method, url |-> self.base_url \o path,
                          params |-> params, headers |-> GetHeaders(self)],
                         answer)
    IN  IF r.kind = "raise"
        THEN [sent |-> r.sent \o r.sent,
              outcome |-> SyncExcept(r.exc, r.msg)]
        ELSE LET rate_limit == ParseRateLimit(r.response.headers)
             IN  [sent |-> IF r.response.status_code = 429
                           THEN r.sent \o r.sent ELSE r.sent,
                  outcome |->
                    IF ~rate_limit.ok
                    THEN Raise(Foreign("ValueError"))
                    ELSE IF ~IsSuccess(r.response)
                    THEN HandleErrorResponse(r.response, rate_limit.v)
                    ELSE IF r.response.body.json = NotJson
                    THEN Raise(Foreign("JSONDecodeError"))
                    ELSE Return(r.response.body.json)]

\* PnodePulse._request
SyncRequest(self, method, path, params, answer) ==
    LET r == HttpRequest(self.http,
                         [method |-> method, url |-> self.base_url \o path,
                          params |-> params, headers |-> GetHeaders(self)],
                         answer)
    IN  IF r.kind = "raise"
        THEN [sent |-> r.sent,
              outcome |->
                SyncExcept(r.exc, r.msg)]
        ELSE LET rate_limit == ParseRateLimit(r.response.headers)
             IN  [sent |-> r.sent,
                  outcome |->
                    IF ~rate_limit.ok
                    THEN Raise(Foreign("ValueError"))
                    ELSE IF ~IsSuccess(r.response)
                    THEN HandleErrorResponse(r.response, rate_limit.v)
                    ELSE IF r.response.body.json = NotJson
                    THEN Raise(Foreign("JSONDecodeError"))
                    ELSE Return(r.response.body.json)]

\* AsyncPnodePulse._request
AsyncRequest(self, method, path, params, answer) ==
    LET r == HttpRequest(self.http,
                         [method |-> method, url |-> self.base_url \o path,
                          params |-> params, headers |-> GetHeaders(self)],
                         answer)
    IN  IF r.kind = "raise"
        THEN [sent |-> r.sent,
              outcome |->
                AsyncExcept(r.exc, r.msg)]
        ELSE LET rate_limit == ParseRateLimit(r.response.headers)
             IN  [sent |-> r.sent,
                  outcome |->
                    IF ~rate_limit.ok
                    THEN Raise(Foreign("ValueError"))
                    ELSE IF ~IsSuccess(r.response)
                    THEN HandleErrorResponse(r.response, rate_limit.v)
                    ELSE IF r.response.body.json = NotJson
                    THEN Raise(Foreign("JSONDecodeError"))
                    ELSE Return(r.response.body.json)]

----------------------------------------------------------------------------
(* Schema layer: the pydantic models and model_validate *)

T(k) == [k |-> k]
Model(m) == [k |-> "model", m |-> m]
ListOf(m) == [k |-> "list", m |-> m]

\* a required field / a field declared Optional[...] with default None
Req(name, alias, type) ==
    [name |-> name, alias |-> alias, type |-> type, opt |-> FALSE]
Opt(name, alias, type) ==
    [name |-> name, alias |-> alias, type |-> type, opt |-> TRUE]

\* the fields of each BaseModel subclass, in declaration order
Fields(m) ==
    CASE m = "NodeCounts" ->
           <<Req("total", "total", T("int")), Req("active", "active", T("int")),
             Req("inactive", "inactive", T("int"))>>
      [] m = "VersionCount" ->
           <<Req("version", "version", T("str")), Req("count", "count", T("int"))>>
      [] m = "NetworkMetrics" ->
           <<Req("total_storage_bytes", "totalStorageBytes", T("int")),
             Req("avg_cpu_percent", "avgCpuPercent", T("float")),
             Req("avg_ram_percent", "avgRamPercent", T("float")),
             Req("avg_uptime_seconds", "avgUptimeSeconds", T("int")),
             Req("timestamp", "timestamp", T("datetime"))>>
      [] m = "NetworkOverview" ->
           <<Req("nodes", "nodes", Model("NodeCounts")),
             Req("versions", "versions", ListOf("VersionCount")),
             Req("metrics", "metrics", Model("NetworkMetrics"))>>
      [] m = "CpuStats" ->
           <<Req("avg", "avg", T("float")), Req("min", "min", T("float")),
             Req("max", "max", T("float")), Req("p50", "p50", T("float")),
             Req("p90", "p90", T("float")), Req("p99", "p99", T("float"))>>
      [] m = "RamStats" ->
           <<Req("avg_percent", "avgPercent", T("float")),
             Req("min_percent", "minPercent", T("float")),
             Req("max_percent", "maxPercent", T("float")),
             Req("p50", "p50", T("float")), Req("p90", "p90", T("float")),
             Req("p99", "p99", T("float"))>>
      [] m = "StorageStats" ->
           <<Req("total", "total", T("int")), Req("avg", "avg", T("int"))>>
      [] m = "UptimeStats" ->
           <<Req("avg_seconds", "avgSeconds", T("int"))>>
      [] m = "NetworkStats" ->
           <<Req("cpu", "cpu", Model("CpuStats")),
             Req("ram", "ram", Model("RamStats")),
             Req("storage", "storage", Model("StorageStats")),
             Req("uptime", "uptime", Model("UptimeStats")),
             Req("node_count", "nodeCount", T("int"))>>
      [] m = "Node" ->
           <<Req("id", "id", T("int")), Req("address", "address", T("str")),
             Opt("pubkey", "pubkey", T("str")),
             Opt("version", "version", T("str")),
             Req("is_active", "isActive", T("bool")),
             Opt("last_seen", "lastSeen", T("datetime")),
             Req("first_seen", "firstSeen", T("datetime"))>>
      [] m = "NodeMetricsData" ->
           <<Opt("cpu_percent", "cpuPercent", T("float")),
             Req("ram_used_bytes", "ramUsedBytes", T("int")),
             Req("ram_total_bytes", "ramTotalBytes", T("int")),
             Req("ram_percent", "ramPercent", T("float")),
             Req("storage_bytes", "storageBytes", T("int")),
             Opt("uptime_seconds", "uptimeSeconds", T("int")),
             Opt("packets_received", "packetsReceived", T("int")),
             Opt("packets_sent", "packetsSent", T("int")),
             Req("timestamp", "timestamp", T("datetime"))>>
      [] m = "NodeDetails" ->
           <<Req("id", "id", T("int")), Req("address", "address", T("str")),
             Opt("pubkey", "pubkey", T("str")),
             Opt("version", "version", T("str")),
             Req("is_active", "isActive", T("bool")),
             Opt("last_seen", "lastSeen", T("datetime")),
             Req("first_seen", "firstSeen", T("datetime")),
             Opt("metrics", "metrics", Model("NodeMetricsData")),
             Req("peer_count", "peerCount", T("int")),
             Req("metrics_count", "metricsCount", T("int"))>>
      [] m = "MetricPoint" ->
           <<Req("time", "time", T("datetime")),
             Req("cpu_percent", "cpuPercent", T("float")),
             Req("ram_percent", "ramPercent", T("float")),
             Req("storage_bytes", "storageBytes", T("int")),
             Req("uptime_seconds", "uptimeSeconds", T("int"))>>
      [] m = "NodeMetrics" ->
           <<Req("node_id", "nodeId", T("int")), Req("range", "range", T("str")),
             Req("aggregation", "aggregation", T("str")),
             Req("data", "data", ListOf("MetricPoint"))>>
      [] m = "NodesList" ->
           <<Req("nodes", "nodes", ListOf("Node")), Req("total", "total", T("int")),
             Req("limit", "limit", T("int")), Req("offset", "offset", T("int")),
             Req("has_more", "hasMore", T("bool"))>>
      [] m = "LeaderboardMetrics" ->
           <<Req("uptime_seconds", "uptimeSeconds", T("int")),
             Req("cpu_percent", "cpuPercent", T("float")),
             Req("ram_percent", "ramPercent", T("float")),
             Req("storage_bytes", "storageBytes", T("int"))>>
      [] m = "LeaderboardEntry" ->
           <<Req("rank", "rank", T("int")), Req("node_id", "nodeId", T("int")),
             Req("address", "address", T("str")),
             Req("version", "version", T("str")), Req("value", "value", T("float")),
             Req("metrics", "metrics", Model("LeaderboardMetrics"))>>
      [] m = "Leaderboard" ->
           <<Req("metric", "metric", T("str")), Req("period", "period", T("str")),
             Req("order", "order", T("str")),
             Req("rankings", "rankings", ListOf("LeaderboardEntry"))>>

\* the models whose Config sets populate_by_name = True
PopulateByName ==
    {"NetworkMetrics", "RamStats", "UptimeStats", "NetworkStats", "Node",
     "NodeMetricsData", "NodeDetails", "MetricPoint", "NodeMetrics",
     "NodesList", "LeaderboardMetrics", "LeaderboardEntry"}

\* the ISO-8601 strings of the sample bodies that parse as a datetime
IsoTimestamps == {"2024-01-01T00:00:00Z", "2024-06-30T12:00:00Z"}

Invalid == [ok |-> FALSE]
Valid(v) == [ok |-> TRUE, v |-> v]

\* validation of a JSON scalar against an annotation.  JSON values only;
\* the lax coercions of values of another JSON type (a numeric string for
\* an int, 0/1 for a bool, a number for a datetime) are not modelled and
\* the sample bodies hold none.
Scalar(k, v) ==
    CASE k = "int" ->
           IF v.t = "int" THEN Valid(v)
           ELSE IF v.t = "float" /\ v.d = 0 THEN Valid(PyInt(v.m)) ELSE Invalid
      [] k = "float" ->
           IF v.t = "float" THEN Valid(v)
           ELSE IF v.t = "int" THEN Valid(PyFloat(v.n, 0)) ELSE Invalid
      [] k = "str" -> IF v.t = "str" THEN Valid(v) ELSE Invalid
      [] k = "bool" -> IF v.t = "bool" THEN Valid(v) ELSE Invalid
      [] k = "datetime" ->
           IF v.t = "str" /\ v.s \in IsoTimestamps
           THEN Valid([t |-> "datetime", iso |-> v.s]) ELSE Invalid

RECURSIVE ModelValidate(_, _)
RECURSIVE Value(_, _)

\* the value of one annotation
Value(type, v) ==
    CASE type.k = "model" -> ModelValidate(type.m, v)
      [] type.k = "list" ->
           IF v.t # "list" THEN Invalid
           ELSE LET rs == [i \in 1..Len(v.a) |-> ModelValidate(type.m, v.a[i])]
                IN  IF \A i \in 1..Len(rs) : rs[i].ok
                    THEN Valid(PyList([i \in 1..Len(rs) |-> rs[i].v]))
                    ELSE Invalid
      [] OTHER -> Scalar(type.k, v)

\* one field of model m read from the dict d: by alias, or by name when the
\* model populates by name; an absent Optional field takes its default None
Field(m, f, d) ==
    LET key == IF f.alias \in DOMAIN d.f THEN <<f.alias>>
               ELSE IF m \in PopulateByName /\ f.name \in DOMAIN d.f
               THEN <<f.name>> ELSE <<>>
    IN  IF key = <<>>
        THEN IF f.opt THEN Valid(PyNone) ELSE Invalid
        ELSE IF f.opt /\ d.f[key[1]] = PyNone THEN Valid(PyNone)
        ELSE Value(f.type, d.f[key[1]])

\* BaseModel.model_validate: the instance, or Invalid for the
\* pydantic.ValidationError it raises
ModelValidate(m, v) ==
    IF v.t # "dict" THEN Invalid
    ELSE LET fs == Fields(m)
             rs == [i \in 1..Len(fs) |-> Field(m, fs[i], v)]
         IN  IF \A i \in 1..Len(fs) : rs[i].ok
             THEN Valid([t |-> "model", cls |-> m,
                         f |-> [n \in {fs[i].name : i \in 1..Len(fs)} |->
                                  rs[CHOOSE i \in 1..Len(fs) : fs[i].name = n].v]])
             ELSE Invalid

----------------------------------------------------------------------------
(* Resource facades *)

\* a keyword argument of a call, or the default of the signature
Arg(kw, name, default) == IF name \in DOMAIN kw THEN kw[name] ELSE default

\* params[k] = v on a dict
Put(f, k, v) == [x \in DOMAIN f \cup {k} |-> IF x = k THEN v ELSE f[x]]

RECURSIVE NatToDigits(_)
NatToDigits(n) ==
    LET d == <<"0", "1", "2", "3", "4", "5", "6", "7", "8", "9">>[(n % 10) + 1]
    IN  IF n < 10 THEN <<d>> ELSE NatToDigits(n \div 10) \o <<d>>

\* str() of a value interpolated in an f-string path
Format(v) ==
    IF v.t = "int"
    THEN IF v.n < 0 THEN <<"-">> \o NatToDigits(0 - v.n) ELSE NatToDigits(v.n)
    ELSE <<v.s>>

\* X.model_validate(data) on what _request returned; a raise of _request
\* propagates
Decode(m, r) ==
    IF r.outcome.kind = "raise" THEN r
    ELSE LET v == ModelValidate(m, r.outcome.value)
         IN  [sent |-> r.sent,
              outcome |-> IF v.ok THEN Return(v.v)
                          ELSE Raise(Foreign("pydantic.ValidationError"))]

\* NetworkResource.get_overview
Sync_get_overview(self, kw, answer) ==
    Decode("NetworkOverview",
           SyncRequest(self, "GET", <<"/api/v1/network">>, PyNone, answer))

\* NetworkResource.get_stats
Sync_get_stats(self, kw, answer) ==
    Decode("NetworkStats",
           SyncRequest(self, "GET", <<"/api/v1/network/stats">>, PyNone, answer))

\* NodesListParams testing version and search with `is not None`
NodesListParamsNotNone(kw) ==
    LET version == Arg(kw, "version", PyNone)
        search == Arg(kw, "search", PyNone)
        params == [status |-> Arg(kw, "status", PyStr("all")),
                   limit |-> Arg(kw, "limit", PyInt(50)),
                   offset |-> Arg(kw, "offset", PyInt(0)),
                   orderBy |-> Arg(kw, "order_by", PyStr("lastSeen")),
                   order |-> Arg(kw, "order", PyStr("desc"))]
        params1 == IF version # PyNone THEN Put(params, "version", version)
                   ELSE params
    IN  IF search # PyNone THEN Put(params1, "search", search) ELSE params1

\* the params dict NodesResource.list builds
NodesListParams(kw) ==
    LET version == Arg(kw, "version", PyNone)
        search == Arg(kw, "search", PyNone)
        params == [status |-> Arg(kw, "status", PyStr("all")),
                   limit |-> Arg(kw, "limit", PyInt(50)),
                   offset |-> Arg(kw, "offset", PyInt(0)),
                   orderBy |-> Arg(kw, "order_by", PyStr("lastSeen")),
                   order |-> Arg(kw, "order", PyStr("desc"))]
        params1 == IF Truthy(version) THEN Put(params, "version", version)
                   ELSE params
    IN  IF Truthy(search) THEN Put(params1, "search", search) ELSE params1

\* NodesResource.list
Sync_list(self, kw, answer) ==
    Decode("NodesList",
           SyncRequest(self, "GET", <<"/api/v1/nodes">>,
                       PyDict(NodesListParams(kw)), answer))

\* NodesResource.get
Sync_get(self, kw, answer) ==
    Decode("NodeDetails",
           SyncRequest(self, "GET",
                       <<"/api/v1/nodes/">> \o Format(kw.id_or_address),
                       PyNone, answer))

\* NodesResource.get_metrics
Sync_get_metrics(self, kw, answer) ==
    Decode("NodeMetrics",
           SyncRequest(self, "GET",
                       <<"/api/v1/nodes/">> \o Format(kw.node_id) \o <<"/metrics">>,
                       PyDict([range |-> Arg(kw, "range", PyStr("24h")),
                               aggregation |->
                                 Arg(kw, "aggregation", PyStr("hourly"))]),
                       answer))

\* the params dict LeaderboardResource.get builds
LeaderboardParams(kw) ==
    [metric |-> Arg(kw, "metric", PyStr("uptime")),
     order |-> Arg(kw, "order", PyStr("top")),
     limit |-> Arg(kw, "limit", PyInt(10)),
     period |-> Arg(kw, "period", PyStr("7d"))]

\* LeaderboardResource.get
Sync_leaderboard_get(self, kw, answer) ==
    Decode("Leaderboard",
           SyncRequest(self, "GET", <<"/api/v1/leaderboard">>,
                       PyDict(LeaderboardParams(kw)), answer))

\* LeaderboardResource.top_uptime
Sync_top_uptime(self, kw, answer) ==
    Sync_leaderboard_get(self,
                         [metric |-> PyStr("uptime"), order |-> PyStr("top"),
                          limit |-> Arg(kw, "limit", PyInt(10))],
                         answer)

\* Sync_top_efficiency asking for the bottom of the ranking
Sync_top_efficiency_bottom(self, kw, answer) ==
    Sync_leaderboard_get(self,
                         [metric |-> PyStr("cpu"), order |-> PyStr("bottom"),
                          limit |-> Arg(kw, "limit", PyInt(10))],
                         answer)

\* LeaderboardResource.top_efficiency
Sync_top_efficiency(self, kw, answer) ==
    Sync_leaderboard_get(self,
                         [metric |-> PyStr("cpu"), order |-> PyStr("top"),
                          limit |-> Arg(kw, "limit", PyInt(10))],
                         answer)

\* LeaderboardResource.top_storage
Sync_top_storage(self, kw, answer) ==
    Sync_leaderboard_get(self,
                         [metric |-> PyStr("storage"), order |-> PyStr("top"),
                          limit |-> Arg(kw, "limit", PyInt(10))],
                         answer)

\* AsyncNetworkResource.get_overview
Async_get_overview(self, kw, answer) ==
    Decode("NetworkOverview",
           AsyncRequest(self, "GET", <<"/api/v1/network">>, PyNone, answer))

\* AsyncNetworkResource.get_stats
Async_get_stats(self, kw, answer) ==
    Decode("NetworkStats",
           AsyncRequest(self, "GET", <<"/api/v1/network/stats">>, PyNone, answer))

\* AsyncNodesListParams sending the ordering column as order_by
AsyncNodesListParamsSnakeCase(kw) ==
    LET version == Arg(kw, "version", PyNone)
        search == Arg(kw, "search", PyNone)
        params == [status |-> Arg(kw, "status", PyStr("all")),
                   limit |-> Arg(kw, "limit", PyInt(50)),
                   offset |-> Arg(kw, "offset", PyInt(0)),
                   order_by |-> Arg(kw, "order_by", PyStr("lastSeen")),
                   order |-> Arg(kw, "order", PyStr("desc"))]
        params1 == IF Truthy(version) THEN Put(params, "version", version)
                   ELSE params
    IN  IF Truthy(search) THEN Put(params1, "search", search) ELSE params1

\* the params dict AsyncNodesResource.list builds
AsyncNodesListParams(kw) ==
    LET version == Arg(kw, "version", PyNone)
        search == Arg(kw, "search", PyNone)
        params == [status |-> Arg(kw, "status", PyStr("all")),
                   limit |-> Arg(kw, "limit", PyInt(50)),
                   offset |-> Arg(kw, "offset", PyInt(0)),
                   orderBy |-> Arg(kw, "order_by", PyStr("lastSeen")),
                   order |-> Arg(kw, "order", PyStr("desc"))]
        params1 == IF Truthy(version) THEN Put(params, "version", version)
                   ELSE params
    IN  IF Truthy(search) THEN Put(params1, "search", search) ELSE params1

\* AsyncNodesResource.list
Async_list(self, kw, answer) ==
    Decode("NodesList",
           AsyncRequest(self, "GET", <<"/api/v1/nodes">>,
                        PyDict(AsyncNodesListParams(kw)), answer))

\* AsyncNodesResource.get
Async_get(self, kw, answer) ==
    Decode("NodeDetails",
           AsyncRequest(self, "GET",
                        <<"/api/v1/nodes/">> \o Format(kw.id_or_address),
                        PyNone, answer))

\* AsyncNodesResource.get_metrics
Async_get_metrics(self, kw, answer) ==
    Decode("NodeMetrics",
           AsyncRequest(self, "GET",
                        <<"/api/v1/nodes/">> \o Format(kw.node_id) \o <<"/metrics">>,
                        PyDict([range |-> Arg(kw, "range", PyStr("24h")),
                                aggregation |->
                                  Arg(kw, "aggregation", PyStr("hourly"))]),
                        answer))

\* the params dict AsyncLeaderboardResource.get builds
AsyncLeaderboardParams(kw) ==
    [metric |-> Arg(kw, "metric", PyStr("uptime")),
     order |-> Arg(kw, "order", PyStr("top")),
     limit |-> Arg(kw, "limit", PyInt(10)),
     period |-> Arg(kw, "period", PyStr("7d"))]

\* AsyncLeaderboardResource.get
Async_leaderboard_get(self, kw, answer) ==
    Decode("Leaderboard",
           AsyncRequest(self, "GET", <<"/api/v1/leaderboard">>,
                        PyDict(AsyncLeaderboardParams(kw)), answer))

\* AsyncLeaderboardResource.top_uptime
Async_top_uptime(self, kw, answer) ==
    Async_leaderboard_get(self,
                          [metric |-> PyStr("uptime"), order |-> PyStr("top"),
                           limit |-> Arg(kw, "limit", PyInt(10))],
                          answer)

\* AsyncLeaderboardResource.top_efficiency
Async_top_efficiency(self, kw, answer) ==
    Async_leaderboard_get(self,
                          [metric |-> PyStr("cpu"), order |-> PyStr("top"),
                           limit |-> Arg(kw, "limit", PyInt(10))],
                          answer)

\* AsyncLeaderboardResource.top_storage
Async_top_storage(self, kw, answer) ==
    Async_leaderboard_get(self,
                          [metric |-> PyStr("storage"), order |-> PyStr("top"),
                           limit |-> Arg(kw, "limit", PyInt(10))],
                          answer)

\* the facade methods, by the name the caller uses
Methods ==
    {"network.get_overview", "network.get_stats", "nodes.list", "nodes.get",
     "nodes.get_metrics", "leaderboard.get", "leaderboard.top_uptime",
     "leaderboard.top_efficiency", "leaderboard.top_storage"}

\* client.<resource>.<method>(**kw) on the synchronous client
SyncInvoke(self, m, kw, answer) ==
    CASE m = "network.get_overview" -> Sync_get_overview(self, kw, answer)
      [] m = "network.get_stats" -> Sync_get_stats(self, kw, answer)
      [] m = "nodes.list" -> Sync_list(self, kw, answer)
      [] m = "nodes.get" -> Sync_get(self, kw, answer)
      [] m = "nodes.get_metrics" -> Sync_get_metrics(self, kw, answer)
      [] m = "leaderboard.get" -> Sync_leaderboard_get(self, kw, answer)
      [] m = "leaderboard.top_uptime" -> Sync_top_uptime(self, kw, answer)
      [] m = "leaderboard.top_efficiency" -> Sync_top_efficiency(self, kw, answer)
      [] m = "leaderboard.top_storage" -> Sync_top_storage(self, kw, answer)

\* await client.<resource>.<method>(**kw) on the asynchronous client
AsyncInvoke(self, m, kw, answer) ==
    CASE m = "network.get_overview" -> Async_get_overview(self, kw, answer)
      [] m = "network.get_stats" -> Async_get_stats(self, kw, answer)
      [] m = "nodes.list" -> Async_list(self, kw, answer)
      [] m = "nodes.get" -> Async_get(self, kw, answer)
      [] m = "nodes.get_metrics" -> Async_get_metrics(self, kw, answer)
      [] m = "leaderboard.get" -> Async_leaderboard_get(self, kw, answer)
      [] m = "leaderboard.top_uptime" -> Async_top_uptime(self, kw, answer)
      [] m = "leaderboard.top_efficiency" -> Async_top_efficiency(self, kw, answer)
      [] m = "leaderboard.top_storage" -> Async_top_storage(self, kw, answer)

----------------------------------------------------------------------------
(* Inputs: clients, calls and transport answers *)

\* the largest explicit limit the leaderboard calls are tried with
MaxLimit == 3

Chars(n) == NatToDigits(n)

ApiKeys == {PyNone, PyStr(""), PyStr("pk_live_1")}
BaseUrls == {<<"https://pulse.rectorspace.com">>, <<"http://localhost:3000", "/", "/">>}

NoKw == <<>>

NodesListKw ==
    LET base == {NoKw,
                 [status |-> PyStr("active"), limit |-> PyInt(5),
                  offset |-> PyInt(10), order_by |-> PyStr("address"),
                  order |-> PyStr("asc")]}
        versions == {<<>>, <<PyNone>>, <<PyStr("")>>, <<PyStr("1.2.3")>>}
        searches == {<<>>, <<PyStr("")>>, <<PyStr("abc")>>}
    IN  {LET k1 == IF v = <<>> THEN b ELSE Put(b, "version", v[1])
         IN  IF q = <<>> THEN k1 ELSE Put(k1, "search", q[1])
         : b \in base, v \in versions, q \in searches}

LimitKw == {NoKw} \cup {[limit |-> PyInt(n)] : n \in 1..MaxLimit}

LeaderboardKw ==
    {NoKw}
    \cup {[metric |-> PyStr("ram"), order |-> PyStr("bottom"),
           limit |-> PyInt(n), period |-> PyStr("30d")] : n \in 1..MaxLimit}
    \cup {[metric |-> PyStr(mt), order |-> PyStr("top"), limit |-> PyInt(n),
           period |-> PyStr("7d")]
          : mt \in {"uptime", "cpu", "storage"}, n \in 1..MaxLimit}

KwOf(m) ==
    CASE m \in {"network.get_overview", "network.get_stats"} -> {NoKw}
      [] m = "nodes.list" -> NodesListKw
      [] m = "nodes.get" ->
           {[id_or_address |-> PyInt(12)], [id_or_address |-> PyStr("10.0.0.1:6000")]}
      [] m = "nodes.get_metrics" ->
           {[node_id |-> PyInt(12)],
            [node_id |-> PyInt(7), range |-> PyStr("1h"),
             aggregation |-> PyStr("raw")]}
      [] m = "leaderboard.get" -> LeaderboardKw
      [] OTHER -> LimitKw

AllCalls == UNION {{[m |-> m, kw |-> kw] : kw \in KwOf(m)} : m \in Methods}

FewCalls == {[m |-> "nodes.list", kw |-> NoKw]}

\* the record each method decodes its body into
SchemaOf(m) ==
    CASE m = "network.get_overview" -> "NetworkOverview"
      [] m = "network.get_stats" -> "NetworkStats"
      [] m = "nodes.list" -> "NodesList"
      [] m = "nodes.get" -> "NodeDetails"
      [] m = "nodes.get_metrics" -> "NodeMetrics"
      [] OTHER -> "Leaderboard"

Ts == PyStr("2024-01-01T00:00:00Z")

SampleNode ==
    PyDict([id |-> PyInt(12), address |-> PyStr("10.0.0.1:6000"),
            pubkey |-> PyNone, isActive |-> PyBool(TRUE),
            lastSeen |-> PyStr("2024-06-30T12:00:00Z"), firstSeen |-> Ts])

\* a body of the wire contract for each schema
Sample(schema) ==
    CASE schema = "NetworkOverview" ->
           PyDict([nodes |-> PyDict([total |-> PyInt(3), active |-> PyInt(2),
                                     inactive |-> PyInt(1)]),
                   versions |-> PyList(<<PyDict([version |-> PyStr("1.2.3"),
                                                 count |-> PyInt(3)])>>),
                   metrics |-> PyDict([totalStorageBytes |-> PyInt(1000),
                                       avgCpuPercent |-> PyFloat(125, 1),
                                       avgRamPercent |-> PyInt(40),
                                       avgUptimeSeconds |-> PyInt(3600),
                                       timestamp |-> Ts])])
      [] schema = "NetworkStats" ->
           PyDict([cpu |-> PyDict([avg |-> PyFloat(125, 1), min |-> PyInt(1),
                                   max |-> PyInt(90), p50 |-> PyInt(10),
                                   p90 |-> PyInt(50), p99 |-> PyInt(80)]),
                   ram |-> PyDict([avgPercent |-> PyInt(40), minPercent |-> PyInt(5),
                                   maxPercent |-> PyInt(95), p50 |-> PyInt(38),
                                   p90 |-> PyInt(70), p99 |-> PyInt(90)]),
                   storage |-> PyDict([total |-> PyInt(1000), avg |-> PyInt(333)]),
                   uptime |-> PyDict([avgSeconds |-> PyInt(3600)]),
                   nodeCount |-> PyInt(3)])
      [] schema = "NodesList" ->
           PyDict([nodes |-> PyList(<<SampleNode>>), total |-> PyInt(1),
                   limit |-> PyInt(50), offset |-> PyInt(0),
                   hasMore |-> PyBool(FALSE)])
      [] schema = "NodeDetails" ->
           PyDict([id |-> PyInt(12), address |-> PyStr("10.0.0.1:6000"),
                   version |-> PyStr("1.2.3"), isActive |-> PyBool(TRUE),
                   firstSeen |-> Ts, peerCount |-> PyInt(4),
                   metricsCount |-> PyInt(100),
                   metrics |-> PyDict([ramUsedBytes |-> PyInt(10),
                                       ramTotalBytes |-> PyInt(20),
                                       ramPercent |-> PyInt(50),
                                       storageBytes |-> PyInt(1000),
                                       timestamp |-> Ts])])
      [] schema = "NodeMetrics" ->
           PyDict([nodeId |-> PyInt(12), range |-> PyStr("24h"),
                   aggregation |-> PyStr("hourly"),
                   data |-> PyList(<<PyDict([time |-> Ts,
                                             cpuPercent |-> PyFloat(125, 1),
                                             ramPercent |-> PyInt(50),
                                             storageBytes |-> PyInt(1000),
                                             uptimeSeconds |-> PyInt(3600)])>>)])
      [] schema = "Leaderboard" ->
           PyDict([metric |-> PyStr("uptime"), period |-> PyStr("7d"),
                   order |-> PyStr("top"),
                   rankings |-> PyList(<<PyDict([rank |-> PyInt(1),
                                                 nodeId |-> PyInt(12),
                                                 address |-> PyStr("10.0.0.1:6000"),
                                                 version |-> PyStr("1.2.3"),
                                                 value |-> PyInt(3600),
                                                 metrics |->
                                                   PyDict([uptimeSeconds |-> PyInt(3600),
                                                           cpuPercent |-> PyFloat(125, 1),
                                                           ramPercent |-> PyInt(50),
                                                           storageBytes |-> PyInt(1000)])])>>)])

\* d without key k
Without(d, k) == PyDict([x \in DOMAIN d.f \ {k} |-> d.f[x]])

\* a required top-level key of each schema
DroppedKey(schema) ==
    CASE schema = "NetworkOverview" -> "nodes"
      [] schema = "NetworkStats" -> "nodeCount"
      [] schema = "NodesList" -> "total"
      [] schema = "NodeDetails" -> "peerCount"
      [] schema = "NodeMetrics" -> "data"
      [] schema = "Leaderboard" -> "rankings"

Json(text, value) == [text |-> text, json |-> value]
Text(text) == [text |-> text, json |-> NotJson]

ValidBody(schema) == Json("<" \o schema \o ">", Sample(schema))
ShortBody(schema) ==
    Json("<" \o schema \o " without " \o DroppedKey(schema) \o ">",
         Without(Sample(schema), DroppedKey(schema)))

ErrorBody ==
    Json("{error: {message: Node not found, code: NODE_NOT_FOUND}}",
         PyDict([error |-> PyDict([message |-> PyStr("Node not found"),
                                   code |-> PyStr("NODE_NOT_FOUND")])]))

OtherBodies ==
    {ErrorBody,
     Json("{error: {message: Slow down}}",
          PyDict([error |-> PyDict([message |-> PyStr("Slow down")])])),
     Json("{error: oops}", PyDict([error |-> PyStr("oops")])),
     Json("{}", EmptyDict),
     Json("[]", PyList(<<>>)),
     Text("Bad Gateway"),
     Text("")}

Statuses == {200, 301, 400, 401, 404, 429, 500}

IntHeaders ==
    [h \in {"X-RateLimit-Limit", "X-RateLimit-Remaining", "X-RateLimit-Reset"} |->
       CASE h = "X-RateLimit-Limit" -> Chars(100)
         [] h = "X-RateLimit-Remaining" -> Chars(42)
         [] h = "X-RateLimit-Reset" -> Chars(1700000000)]

RateHeaders ==
    {<<>>, IntHeaders,
     [h \in {"X-RateLimit-Limit"} |-> <<" ">> \o Chars(60)],
     Put(IntHeaders, "X-RateLimit-Limit", <<"a", "b", "c">>),
     Put(IntHeaders, "X-RateLimit-Remaining", <<>>),
     Put(IntHeaders, "X-RateLimit-Reset", <<"1", ".", "5">>)}

RetryAfters == {<<>>, <<Chars(30)>>, <<<<"W", "e", "d", ",", " ", "2", "1">>>>}

Response(status, headers, body) ==
    [kind |-> "response",
     response |-> [status_code |-> status, headers |-> headers, body |-> body]]

Failure(exc, msg) == [kind |-> "raise", exc |-> exc, msg |-> msg]

Failures ==
    {Failure("ConnectTimeout", "timed out"), Failure("ReadTimeout", "timed out"),
     Failure("ConnectError", "Name or service not known"),
     Failure("TooManyRedirects", "Exceeded maximum allowed redirects.")}

\* the response headers tried: the rate-limit headers, and on a 429 the
\* Retry-After header
HeadersOf(status) ==
    IF status = 429
    THEN {IF ra = <<>> THEN rh ELSE Put(rh, "Retry-After", ra[1])
          : rh \in RateHeaders, ra \in RetryAfters}
    ELSE RateHeaders

AllAnswers(m) ==
    Failures
    \cup UNION {{Response(st, h, b)
                 : h \in HeadersOf(st),
                   b \in OtherBodies
                        \cup {ValidBody(SchemaOf(m)), ShortBody(SchemaOf(m))}}
                : st \in Statuses}

FewAnswers(m) ==
    {Failure("ConnectTimeout", "timed out"),
     Failure("ConnectError", "Name or service not known"),
     Response(200, IntHeaders, ValidBody(SchemaOf(m))),
     Response(200, IntHeaders, ShortBody(SchemaOf(m))),
     Response(404, IntHeaders, ErrorBody),
     Response(429, Put(IntHeaders, "Retry-After", Chars(30)), ErrorBody),
     Response(500, <<>>, Text("Bad Gateway"))}

\* the calls and answers tried: every answer on one call, and every call
\* on a few answers
Scenarios ==
    UNION {{[m |-> c.m, kw |-> c.kw, answer |-> a] : a \in AllAnswers(c.m)}
           : c \in FewCalls}
    \cup UNION {{[m |-> c.m, kw |-> c.kw, answer |-> a] : a \in FewAnswers(c.m)}
                : c \in AllCalls}

----------------------------------------------------------------------------
(* The clients as a state machine *)

Clients == {"sync", "async"}

\* the caller is between two calls
NoCall == [client |-> "none"]

\* the most asyncio tasks that call the asynchronous client at a time
MaxTasks == 2

Tasks == 1..MaxTasks

\* a task that is not in a facade call
Idle == [pc |-> "idle"]

\* no call of the asynchronous client is suspended in its await: the
\* handle is not closed while requests are in flight
Quiet == \A t \in Tasks : tasks[t].pc # "awaiting"

\* the record of a completed facade call: who called what, what the
\* transport answered, whether close() had been performed before the call,
\* the HTTP requests issued and how the call ended
Completed(c, s, r) ==
    [client |-> c, m |-> s.m, kw |-> s.kw, answer |-> s.answer,
     after_close |-> closed[c], sent |-> r.sent, outcome |-> r.outcome]

\* PnodePulse(api_key, base_url) and AsyncPnodePulse(api_key, base_url),
\* built with the same arguments
Init ==
    /\ \E k \in ApiKeys, b \in BaseUrls :
          client = [c \in Clients |-> NewClient(k, b, DEFAULT_TIMEOUT)]
    /\ closed = [c \in Clients |-> FALSE]
    /\ last = NoCall
    /\ tasks = [t \in Tasks |-> Idle]

\* a facade call on the synchronous client, to its end
SyncCall ==
    \E s \in Scenarios :
       /\ last = NoCall
       /\ last' = Completed("sync", s,
                            SyncInvoke(client["sync"], s.m, s.kw, s.answer))
       /\ UNCHANGED <<client, closed, tasks>>

\* an awaited facade call on the asynchronous client, to its end
AsyncCall ==
    \E s \in Scenarios :
       /\ last = NoCall
       /\ last' = Completed("async", s,
                            AsyncInvoke(client["async"], s.m, s.kw, s.answer))
       /\ UNCHANGED <<client, closed, tasks>>

\* PnodePulse.close, called by a caller that is between two calls
SyncClose ==
    /\ last = NoCall
    /\ client' = [client EXCEPT !["sync"].http = HttpClose(@)]
    /\ closed' = [closed EXCEPT !["sync"] = TRUE]
    /\ UNCHANGED <<last, tasks>>

\* PnodePulse.__exit__: the end of a `with` scope calls self.close()
SyncExit ==
    /\ last = NoCall
    /\ client' = [client EXCEPT !["sync"].http = HttpClose(@)]
    /\ closed' = [closed EXCEPT !["sync"] = TRUE]
    /\ UNCHANGED <<last, tasks>>

\* AsyncPnodePulse.close
AsyncClose ==
    /\ last = NoCall
    /\ Quiet
    /\ client' = [client EXCEPT !["async"].http = HttpClose(@)]
    /\ closed' = [closed EXCEPT !["async"] = TRUE]
    /\ UNCHANGED <<last, tasks>>

\* AsyncPnodePulse.__aexit__: the end of an `async with` scope awaits
\* self.close()
AsyncExit ==
    /\ last = NoCall
    /\ Quiet
    /\ client' = [client EXCEPT !["async"].http = HttpClose(@)]
    /\ closed' = [closed EXCEPT !["async"] = TRUE]
    /\ UNCHANGED <<last, tasks>>

\* the caller has handled the value or the exception of its call
Handled ==
    /\ last # NoCall
    /\ last' = NoCall
    /\ UNCHANGED <<client, closed, tasks>>

Next ==
    \/ Handled
    \/ SyncCall
    \/ AsyncCall
    \/ SyncClose
    \/ SyncExit
    \/ AsyncClose
    \/ AsyncExit

Spec == Init /\ [][Next]_vars

----------------------------------------------------------------------------
(* Several asyncio tasks awaiting calls of one AsyncPnodePulse *)

\* the calls the tasks make
TaskCalls ==
    {[m |-> "network.get_overview", kw |-> NoKw],
     [m |-> "nodes.get", kw |-> [id_or_address |-> PyInt(12)]]}

\* the answers of the transport to a task's request: they differ in status
\* and in rate-limit headers
TaskAnswers(m) ==
    {Failure("ReadTimeout", "timed out"),
     Response(200, IntHeaders, ValidBody(SchemaOf(m))),
     Response(429, Put(Put(IntHeaders, "X-RateLimit-Remaining", Chars(0)),
                       "Retry-After", Chars(30)),
              ErrorBody),
     Response(404, [h \in {"X-RateLimit-Limit"} |-> Chars(60)], ErrorBody)}

\* a frame that a caller would share between its calls: the frame of
\* some call in flight
LocalsShared(t) == tasks[CHOOSE u \in Tasks : tasks[u].pc = "awaiting"]

\* the parameters and local variables of the coroutine that task t runs:
\* method, path and params of _request and the arguments of the facade
\* method live in the coroutine's own frame
Locals(t) == tasks[t]

\* task t calls a facade method: the coroutine runs up to
\* `await self._http.request(...)` and is suspended there
AsyncStart(t) ==
    \E c \in TaskCalls :
       /\ tasks[t].pc = "idle"
       /\ tasks' = [tasks EXCEPT ![t] = [pc |-> "awaiting", m |-> c.m, kw |-> c.kw]]
       /\ UNCHANGED <<client, closed, last>>

\* the transport answers the request of task t and the coroutine runs from
\* its await to its end: rate-limit parsing, error handling, decoding
AsyncResume(t) ==
    /\ tasks[t].pc = "awaiting"
    /\ \E a \in TaskAnswers(tasks[t].m) :
          LET r == AsyncInvoke(client["async"], Locals(t).m, Locals(t).kw, a)
          IN  tasks' = [tasks EXCEPT ![t] =
                          [pc |-> "done", m |-> @.m, kw |-> @.kw, answer |-> a,
                           after_close |-> closed["async"],
                           sent |-> r.sent, outcome |-> r.outcome]]
    /\ UNCHANGED <<client, closed, last>>

\* task t has handled the value or the exception of its call
TaskHandled(t) ==
    /\ tasks[t].pc = "done"
    /\ tasks' = [tasks EXCEPT ![t] = Idle]
    /\ UNCHANGED <<client, closed, last>>

NextAsync ==
    \/ \E t \in Tasks : AsyncStart(t)
    \/ \E t \in Tasks : AsyncResume(t)
    \/ \E t \in Tasks : TaskHandled(t)
    \/ AsyncClose
    \/ AsyncExit

SpecAsync == Init /\ [][NextAsync]_vars

----------------------------------------------------------------------------
(* Properties *)

\* the completed call reached the transport and the transport answered
\* with an HTTP response
Answered ==
    /\ last # NoCall
    /\ last.sent # <<>>
    /\ last.answer.kind = "response"

\* the transport failed before any response existed
Failed ==
    /\ last # NoCall
    /\ last.sent # <<>>
    /\ last.answer.kind = "raise"

RateLimitNames == {"X-RateLimit-Limit", "X-RateLimit-Remaining", "X-RateLimit-Reset"}

\* the header is present and is not an integer
Malformed(headers, name) == name \in DOMAIN headers /\ ~IntOfStr(headers[name]).ok

\* the header's integer when it is one, 0 when it is absent or malformed
IntOrZero(headers, name) ==
    IF name \in DOMAIN headers /\ IntOfStr(headers[name]).ok
    THEN IntOfStr(headers[name]).v ELSE 0

\* no rate-limit header of the response is malformed
CleanRateLimit(headers) == \A n \in RateLimitNames : ~Malformed(headers, n)

\* the error the status alone selects
ErrorOf(status) ==
    CASE status = 429 -> "RateLimitError"
      [] status = 404 -> "NotFoundError"
      [] status = 401 -> "AuthenticationError"
      [] OTHER -> "PnodePulseError"

\* C1: every non-2xx response handed to _handle_error_response ends in a
\* raise of the one error its status selects (429 RateLimitError with code
\* RATE_LIMIT_EXCEEDED and status 429, 404 NotFoundError, 401
\* AuthenticationError, otherwise a PnodePulseError carrying the status),
\* and for 404 and 401 code and status are fixed whatever the body is.
C1_StatusSelectsError ==
    (/\ Answered
     /\ ~IsSuccess(last.answer.response)
     /\ CleanRateLimit(last.answer.response.headers))
    => LET st == last.answer.response.status_code
           o == last.outcome
       IN  /\ o.kind = "raise"
           /\ o.exc.cls = ErrorOf(st)
           /\ o.exc.status = PyInt(st)
           /\ st = 429 => o.exc.code = PyStr("RATE_LIMIT_EXCEEDED")
           /\ st = 404 => o.exc.code = PyStr("NOT_FOUND")
           /\ st = 401 => o.exc.code = PyStr("UNAUTHORIZED")

\* C2: _parse_rate_limit never fails: each of the three headers is read as
\* its integer, or as 0 when it is absent or malformed, so a response with
\* a malformed rate-limit header still ends in its body or in its
\* status-based error and never in a parsing error.
C2_RateLimitParsingNeverFails ==
    Answered
    => LET h == last.answer.response.headers
           rl == ParseRateLimit(h)
       IN  /\ rl.ok
           /\ rl.v = RateLimitInfo(IntOrZero(h, "X-RateLimit-Limit"),
                                   IntOrZero(h, "X-RateLimit-Remaining"),
                                   IntOrZero(h, "X-RateLimit-Reset"))
           /\ ~(last.outcome.kind = "raise"
                /\ last.outcome.exc.cls = "ValueError"
                /\ ~CleanRateLimit(h))

\* the 2xx body is JSON that does not match the schema of the called method
Mismatch ==
    /\ Answered
    /\ IsSuccess(last.answer.response)
    /\ CleanRateLimit(last.answer.response.headers)
    /\ last.answer.response.body.json # NotJson
    /\ ~ModelValidate(SchemaOf(last.m), last.answer.response.body.json).ok

\* C3: a 2xx body that does not match the schema of the called method ends
\* the call in the SDK's ValidationError (a PnodePulseError with code
\* VALIDATION_ERROR), never in a returned record.
C3_MismatchRaisesValidationError ==
    Mismatch
    => /\ last.outcome.kind = "raise"
       /\ last.outcome.exc.cls = "ValidationError"
       /\ last.outcome.exc.sdk
       /\ last.outcome.exc.code = PyStr("VALIDATION_ERROR")

\* the failures of the transport that are timeouts
IsTimeout(exc) == exc \in {"ConnectTimeout", "ReadTimeout"}

\* C4: when the transport fails before any response exists, the call (sync
\* or async) raises TimeoutError (code TIMEOUT) for a timeout and
\* NetworkError (code NETWORK_ERROR, wrapping the underlying message) for
\* any other transport failure; no rate limit is parsed and no
\* status-based error is raised.
C4_TransportFailure ==
    Failed
    => /\ last.outcome.kind = "raise"
       /\ last.outcome.exc.sdk
       /\ IsTimeout(last.answer.exc)
          => /\ last.outcome.exc.cls = "TimeoutError"
             /\ last.outcome.exc.code = PyStr("TIMEOUT")
       /\ ~IsTimeout(last.answer.exc)
          => /\ last.outcome.exc.cls = "NetworkError"
             /\ last.outcome.exc.code = PyStr("NETWORK_ERROR")
             /\ last.outcome.exc.message = PyStr(last.answer.msg)
       /\ last.outcome.exc.status = PyNone
       /\ last.outcome.exc.rate_limit = PyNone

\* a timeout on the async client and a DNS failure on the sync client have
\* been translated
C4_Witness ==
    /\ Failed
    /\ \/ last.client = "async" /\ last.answer.exc = "ReadTimeout"
          /\ last.outcome.exc.cls = "TimeoutError"
       \/ last.client = "sync" /\ last.answer.exc = "ConnectError"
          /\ last.outcome.exc.cls = "NetworkError"

C6_SyncAsyncAgree ==
    last # NoCall
    => LET self == client[last.client]
           other == IF last.client = "sync"
                    THEN AsyncInvoke(self, last.m, last.kw, last.answer)
                    ELSE SyncInvoke(self, last.m, last.kw, last.answer)
       IN  /\ other.sent = last.sent
           /\ other.outcome = last.outcome

\* the async client decoded a record, and so did the sync client
C6_Witness ==
    /\ last # NoCall
    /\ last.client = "async"
    /\ last.m = "nodes.get_metrics"
    /\ last.outcome.kind = "return"
    /\ last.outcome.value.cls = "NodeMetrics"
    /\ SyncInvoke(client["sync"], last.m, last.kw, last.answer).outcome.kind = "return"

\* a non-2xx status other than 429, 404 and 401 reached the error handler
Generic ==
    /\ Answered
    /\ ~IsSuccess(last.answer.response)
    /\ last.answer.response.status_code \notin {429, 404, 401}
    /\ CleanRateLimit(last.answer.response.headers)

\* the body is JSON with error.message and error.code
HasErrorFields(json) ==
    /\ json # NotJson
    /\ json.t = "dict"
    /\ "error" \in DOMAIN json.f
    /\ json.f["error"].t = "dict"
    /\ {"message", "code"} \subseteq DOMAIN json.f["error"].f

\* C7: for a non-2xx status other than 429, 404 and 401 the generic error
\* carries error.message and error.code of a JSON body that has them; for
\* a body that is not JSON it carries the raw text, or "Unknown error" when
\* the text is empty, and the code "UNKNOWN_ERROR".
C7_GenericErrorFields ==
    Generic
    => LET body == last.answer.response.body
           e == last.outcome.exc
       IN  /\ last.outcome.kind = "raise"
           /\ e.cls = "PnodePulseError"
           /\ HasErrorFields(body.json)
              => /\ e.message = body.json.f["error"].f["message"]
                 /\ e.code = body.json.f["error"].f["code"]
           /\ body.json = NotJson
              => /\ e.message = IF body.text = "" THEN PyStr("Unknown error")
                                ELSE PyStr(body.text)
                 /\ e.code = PyStr("UNKNOWN_ERROR")

\* a 500 with a JSON error body was raised with the body's message and code
C7_Witness ==
    /\ Generic
    /\ last.answer.response.status_code = 500
    /\ HasErrorFields(last.answer.response.body.json)
    /\ last.outcome.exc.code = PyStr("NODE_NOT_FOUND")

\* a 429 whose rate-limit headers and Retry-After header, where present,
\* are integers
Throttled ==
    /\ Answered
    /\ last.answer.response.status_code = 429
    /\ CleanRateLimit(last.answer.response.headers)
    /\ ~Malformed(last.answer.response.headers, "Retry-After")

Listed ==
    /\ last # NoCall
    /\ last.m = "nodes.list"
    /\ last.sent # <<>>

\* the keyword was given with a non-empty string
Provided(kw, name) == name \in DOMAIN kw /\ kw[name] \notin {PyNone, PyStr("")}

\* the keyword's value, or the default of the signature
Given(kw, name, default) == IF name \in DOMAIN kw THEN kw[name] ELSE default

\* C9: nodes.list sends exactly the keys status, limit, offset, orderBy and
\* order (defaults "all", 50, 0, "lastSeen", "desc"), plus version if and
\* only if a (non-empty) version was provided and search if and only if a
\* (non-empty) search string was provided; neither is ever sent empty.
C9_NodesListParams ==
    Listed
    => LET p == last.sent[1].params.f
           kw == last.kw
       IN  /\ DOMAIN p = {"status", "limit", "offset", "orderBy", "order"}
                         \cup (IF Provided(kw, "version") THEN {"version"} ELSE {})
                         \cup (IF Provided(kw, "search") THEN {"search"} ELSE {})
           /\ p["status"] = Given(kw, "status", PyStr("all"))
           /\ p["limit"] = Given(kw, "limit", PyInt(50))
           /\ p["offset"] = Given(kw, "offset", PyInt(0))
           /\ p["orderBy"] = Given(kw, "order_by", PyStr("lastSeen"))
           /\ p["order"] = Given(kw, "order", PyStr("desc"))
           /\ "version" \in DOMAIN p
              => p["version"] = kw["version"] /\ p["version"] # PyStr("")
           /\ "search" \in DOMAIN p
              => p["search"] = kw["search"] /\ p["search"] # PyStr("")

\* nodes.list(version="1.2.3", search="") sent version and no search
C9_Witness ==
    /\ Listed
    /\ "version" \in DOMAIN last.kw /\ last.kw["version"] = PyStr("1.2.3")
    /\ "search" \in DOMAIN last.kw /\ last.kw["search"] = PyStr("")
    /\ "version" \in DOMAIN last.sent[1].params.f
    /\ "search" \notin DOMAIN last.sent[1].params.f

\* the metric each convenience wrapper is documented to rank by
Wrappers ==
    [m \in {"leaderboard.top_uptime", "leaderboard.top_efficiency",
            "leaderboard.top_storage"} |->
       CASE m = "leaderboard.top_uptime" -> "uptime"
         [] m = "leaderboard.top_efficiency" -> "cpu"
         [] m = "leaderboard.top_storage" -> "storage"]

\* a convenience wrapper sent its request
Wrapped ==
    /\ last # NoCall
    /\ last.m \in DOMAIN Wrappers
    /\ last.sent # <<>>

\* C10: top_uptime(limit), top_efficiency(limit) and top_storage(limit)
\* send the endpoint and the query parameters of
\* get(metric=<uptime|cpu|storage>, order="top", limit=limit, period="7d").
C10_WrappersAreGet ==
    Wrapped
    => LET direct == [metric |-> PyStr(Wrappers[last.m]), order |-> PyStr("top"),
                      limit |-> Given(last.kw, "limit", PyInt(10)),
                      period |-> PyStr("7d")]
           self == client[last.client]
           get == IF last.client = "sync"
                  THEN Sync_leaderboard_get(self, direct, last.answer)
                  ELSE Async_leaderboard_get(self, direct, last.answer)
       IN  /\ last.sent = get.sent
           /\ last.sent[1].params = PyDict(direct)
           /\ last.sent[1].url = self.base_url \o <<"/api/v1/leaderboard">>

\* top_efficiency(limit=MaxLimit) sent metric cpu with that limit
C10_Witness ==
    /\ Wrapped
    /\ last.m = "leaderboard.top_efficiency"
    /\ last.kw = [limit |-> PyInt(MaxLimit)]
    /\ last.sent[1].params.f["metric"] = PyStr("cpu")
    /\ last.sent[1].params.f["limit"] = PyInt(MaxLimit)

Alone(t) ==
    AsyncInvoke([client["async"] EXCEPT
                   !.http.state = IF tasks[t].after_close THEN "closed" ELSE "open"],
                tasks[t].m, tasks[t].kw, tasks[t].answer)

\* every completed call of a task ended as the same call made alone does
OwnOutcome ==
    \A t \in Tasks :
       tasks[t].pc = "done"
       => /\ tasks[t].sent = Alone(t).sent
          /\ tasks[t].outcome = Alone(t).outcome

====
